---- MODULE Spec2Model ----
(***************************************************************************)
(* A model of main.py: the yt-dlp backed /yt/info endpoint, its format     *)
(* classifier filter_formats and its metadata formatters.                  *)
(*                                                                         *)
(* Python values are modelled as tagged records of one shape, so that two  *)
(* values are equal here exactly when Python's == says so (None, int and    *)
(* str; an int never equals a str; float and bool values are not among     *)
(* them).  A str is the sequence of its                                    *)
(* characters, so formatting and parsing are computed, not assumed.  A     *)
(* dict is a function from its keys; a key that is absent is absent from   *)
(* the DOMAIN.                                                             *)
(***************************************************************************)
EXTENDS Integers, Sequences, FiniteSets, TLC

VARIABLES
    pc,          \* which call is in progress and how far it got
    formats,     \* filter_formats: the argument list of descriptors
    result,      \* filter_formats: what the call on formats produced
    reapplied,   \* filter_formats: what the call on its own output entries produced
    resurvived,  \* filter_formats: what the call on the surviving descriptors produced
    seconds,     \* format_duration: the argument
    duration,    \* format_duration: what the call produced
    extracted,   \* get_video_info: what ydl.extract_info did for the request
    response,    \* get_video_info: the HTTP response of the request
    extract_calls \* get_video_info: calls of ydl.extract_info made for the request

vars == <<pc, formats, result, reapplied, resurvived, seconds, duration,
          extracted, response, extract_calls>>

---------------------------------------------------------------------------
(* Python values *)

None == [t |-> "none", n |-> 0, s |-> <<>>]
PyInt(k) == [t |-> "int", n |-> k, s |-> <<>>]
PyStr(cs) == [t |-> "str", n |-> 0, s |-> cs]

\* bool(v): None, 0 and "" are false
Truthy(v) == CASE v.t = "none" -> FALSE
               [] v.t = "int" -> v.n # 0
               [] v.t = "str" -> v.s # <<>>

\* a or b
PyOr(a, b) == IF Truthy(a) THEN a ELSE b

\* d.get(k): None when the key is absent
Get(d, k) == IF k \in DOMAIN d THEN d[k] ELSE None

\* d without the key k
Without(d, k) == [j \in DOMAIN d \ {k} |-> d[j]]

DigitChars == <<"0", "1", "2", "3", "4", "5", "6", "7", "8", "9">>
DigitSet == {DigitChars[i] : i \in 1..10}
DigitValue(c) == (CHOOSE i \in 1..10 : DigitChars[i] = c) - 1

\* str(n) of an int
RECURSIVE IntToStr(_)
IntToStr(n) ==
    IF n < 0 THEN <<"-">> \o IntToStr(0 - n)
    ELSE IF n < 10 THEN <<DigitChars[n + 1]>>
    ELSE IntToStr(n \div 10) \o <<DigitChars[(n % 10) + 1]>>

\* f"{v}" of a value
PyFormat(v) == CASE v.t = "none" -> <<"N", "o", "n", "e">>
                 [] v.t = "int" -> IntToStr(v.n)
                 [] v.t = "str" -> v.s

\* s.isdigit(), on ASCII text
IsDigit(s) == s # <<>> /\ \A i \in 1..Len(s) : s[i] \in DigitSet

\* int(s) of a string of digits
RECURSIVE ParseInt(_)
ParseInt(s) ==
    IF s = <<>> THEN 0
    ELSE 10 * ParseInt(SubSeq(s, 1, Len(s) - 1)) + DigitValue(s[Len(s)])

\* s.replace(c, '') for a one-character c
RemoveChar(s, c) == SelectSeq(s, LAMBDA x : x # c)

\* s.replace('N/A', '0')
RECURSIVE ReplaceNA(_)
ReplaceNA(s) ==
    IF s = <<>> THEN <<>>
    ELSE IF Len(s) >= 3 /\ SubSeq(s, 1, 3) = <<"N", "/", "A">>
         THEN <<"0">> \o ReplaceNA(SubSeq(s, 4, Len(s)))
    ELSE <<Head(s)>> \o ReplaceNA(Tail(s))

\* the string literals of main.py, and the other strings the descriptors carry
S_none == <<"n", "o", "n", "e">>
S_mp4 == <<"m", "p", "4">>
S_m4a == <<"m", "4", "a">>
S_webm == <<"w", "e", "b", "m">>
S_http == <<"h", "t", "t", "p">>
S_https == <<"h", "t", "t", "p", "s">>
S_hls == <<"h", "l", "s">>
S_Standard == <<"S", "t", "a", "n", "d", "a", "r", "d">>
S_NA == <<"N", "/", "A">>

---------------------------------------------------------------------------
(* filter_formats *)

\* Eligible without the protocol test
Eligible_AnyProtocol(f) == Truthy(Get(f, "url"))

\* line 65: the protocol is https, http or absent, and the url is not empty
Eligible(f) ==
    /\ Get(f, "protocol") \in {PyStr(S_https), PyStr(S_http), None}
    /\ Truthy(Get(f, "url"))

\* line 68: a combined video + audio mp4 stream
IsCombined(f) ==
    /\ Get(f, "vcodec") # PyStr(S_none)
    /\ Get(f, "acodec") # PyStr(S_none)
    /\ Get(f, "ext") = PyStr(S_mp4)

\* IsAudioOnly without the test that there is no video track
IsAudioOnly_AnyVideoCodec(f) ==
    /\ Get(f, "acodec") # PyStr(S_none)
    /\ Get(f, "ext") \in {PyStr(S_m4a), PyStr(S_mp4)}

\* line 81: an audio-only stream
IsAudioOnly(f) ==
    /\ Get(f, "vcodec") = PyStr(S_none)
    /\ Get(f, "acodec") # PyStr(S_none)
    /\ Get(f, "ext") \in {PyStr(S_m4a), PyStr(S_mp4)}

\* line 69: res = f.get('height') or f.get('format_note')
ResolutionOf(f) == PyOr(Get(f, "height"), Get(f, "format_note"))

\* line 72: f"{res}p"
ResolutionLabel(res) == PyStr(PyFormat(res) \o <<"p">>)

\* lines 71-77; f['format_id'] needs the key (checked by the caller)
CombinedEntry(f) ==
    [resolution |-> ResolutionLabel(ResolutionOf(f)),
     ext |-> Get(f, "ext"),
     filesize |-> PyOr(Get(f, "filesize"), Get(f, "filesize_approx")),
     url |-> f["url"],
     format_id |-> f["format_id"]]

\* lines 82-88
AudioEntry(f) ==
    [quality |-> PyOr(PyOr(Get(f, "format_note"), Get(f, "abr")), PyStr(S_Standard)),
     ext |-> Get(f, "ext"),
     filesize |-> PyOr(Get(f, "filesize"), Get(f, "filesize_approx")),
     url |-> f["url"],
     format_id |-> f["format_id"]]

\* The locals of filter_formats before the loop (lines 60-62).  combined_src and
\* audio_src run parallel to the two lists and record, for each entry, the index
\* in formats of the descriptor it was built from; raised is set when a
\* subscript f['format_id'] meets a descriptor without that key (KeyError).
LoopStart ==
    [combined_formats |-> <<>>, combined_src |-> <<>>,
     audio_only_formats |-> <<>>, audio_src |-> <<>>,
     seen_resolutions |-> {}, raised |-> FALSE]

\* one iteration of the loop of lines 64-88, on formats[i] = f
LoopBody(st, f, i) ==
    IF st.raised \/ ~Eligible(f) THEN st
    ELSE IF IsCombined(f) THEN
        IF Truthy(ResolutionOf(f)) /\ ResolutionOf(f) \notin st.seen_resolutions
        THEN IF "format_id" \notin DOMAIN f
             THEN [st EXCEPT !.raised = TRUE]
             ELSE [st EXCEPT !.combined_formats = Append(@, CombinedEntry(f)),
                             !.combined_src = Append(@, i),
                             !.seen_resolutions = @ \cup {ResolutionOf(f)}]
        ELSE st
    ELSE IF IsAudioOnly(f) THEN
        IF "format_id" \notin DOMAIN f
        THEN [st EXCEPT !.raised = TRUE]
        ELSE [st EXCEPT !.audio_only_formats = Append(@, AudioEntry(f)),
                        !.audio_src = Append(@, i)]
    ELSE st

\* the loop of lines 64-88 from index i on
RECURSIVE Loop(_, _, _)
Loop(fs, i, st) ==
    IF i > Len(fs) THEN st ELSE Loop(fs, i + 1, LoopBody(st, fs[i], i))

\* line 90: the sort key of a combined entry
SortKey(x) ==
    IF IsDigit(RemoveChar(x.resolution.s, "p"))
    THEN ParseInt(ReplaceNA(RemoveChar(x.resolution.s, "p")))
    ELSE 0

\* SortedOrder with a sort that is not stable: equal keys end in reverse order
RECURSIVE SortedOrder_TiesReversed(_, _)
SortedOrder_TiesReversed(keys, n) ==
    IF n = 0 THEN <<>>
    ELSE LET p == SortedOrder_TiesReversed(keys, n - 1)
             pos == Cardinality({j \in 1..Len(p) : keys[p[j]] < keys[n]})
         IN  SubSeq(p, 1, pos) \o <<n>> \o SubSeq(p, pos + 1, Len(p))

\* list.sort(key=...) as the order it puts the indices of the first n keys in:
\* ascending by key, equal keys in their original order (the sort is stable)
RECURSIVE SortedOrder(_, _)
SortedOrder(keys, n) ==
    IF n = 0 THEN <<>>
    ELSE LET p == SortedOrder(keys, n - 1)
             pos == Cardinality({j \in 1..Len(p) : keys[p[j]] <= keys[n]})
         IN  SubSeq(p, 1, pos) \o <<n>> \o SubSeq(p, pos + 1, Len(p))

Permute(seq, p) == [j \in 1..Len(p) |-> seq[p[j]]]

\* CombinedOrder with the sort of line 90 left out
CombinedOrder_Unsorted(combined) == [j \in 1..Len(combined) |-> j]

\* line 90: the order combined_formats.sort(...) leaves the list in
CombinedOrder(combined) ==
    SortedOrder([j \in 1..Len(combined) |-> SortKey(combined[j])], Len(combined))

\* lines 92-96: the indices the dict unique_audio keeps, first seen per key
UniqueOrder(audio) ==
    SelectSeq([j \in 1..Len(audio) |-> j],
              LAMBDA j : \A k \in 1..(j - 1) :
                  <<audio[k].ext, audio[k].quality>> # <<audio[j].ext, audio[j].quality>>)

\* filter_formats(fs): status "ok" with the two returned lists, or "KeyError"
filter_formats(fs) ==
    LET st == Loop(fs, 1, LoopStart)
        co == CombinedOrder(st.combined_formats)
        uo == UniqueOrder(st.audio_only_formats)
    IN  IF st.raised
        THEN [status |-> "KeyError", combined |-> <<>>, combined_src |-> <<>>,
              audio |-> <<>>, audio_src |-> <<>>]
        ELSE [status |-> "ok",
              combined |-> Permute(st.combined_formats, co),
              combined_src |-> Permute(st.combined_src, co),
              audio |-> Permute(st.audio_only_formats, uo),
              audio_src |-> Permute(st.audio_src, uo)]

---------------------------------------------------------------------------
(* The descriptors the calls of filter_formats are checked on.  yt-dlp's   *)
(* format dicts are loosely typed: any key may be absent or None.  The set *)
(* varies one aspect at a time of a combined stream and of an audio-only   *)
(* stream: the label (height, format_note, abr), the codecs and extension, *)
(* the protocol and url, and the remaining keys.                           *)

Merge(d, e) == [k \in DOMAIN d \cup DOMAIN e |-> IF k \in DOMAIN e THEN e[k] ELSE d[k]]

Stream(vcodec, acodec, ext) ==
    [protocol |-> PyStr(S_https), url |-> PyStr(<<"u">>), vcodec |-> PyStr(vcodec),
     acodec |-> PyStr(acodec), ext |-> PyStr(ext), format_id |-> PyStr(<<"a">>)]

Video == Stream(<<"a", "v", "c", "1">>, <<"m", "p", "4", "a">>, S_mp4)
Audio == Stream(S_none, <<"m", "p", "4", "a">>, S_m4a)

Height9 == [height |-> PyInt(9)]
Abr5 == [abr |-> PyInt(5)]

Labels ==
    {Height9, [height |-> PyInt(10)], Abr5,
     [format_note |-> PyStr(<<"9">>)], [format_note |-> PyStr(<<"m">>)],
     [height |-> PyInt(0), format_note |-> PyStr(<<"9">>)],
     [height |-> None, format_note |-> None, abr |-> None],
     [format_note |-> PyStr(<<>>)]}

Classes ==
    {Without(Video, "vcodec"),
     Stream(<<"a", "v", "c", "1">>, S_none, S_mp4),
     Stream(<<"a", "v", "c", "1">>, <<"m", "p", "4", "a">>, S_webm),
     Stream(<<"a", "v", "c", "1">>, <<"m", "p", "4", "a">>, S_m4a),
     Stream(S_none, <<"m", "p", "4", "a">>, S_mp4),
     Stream(S_none, <<"m", "p", "4", "a">>, S_webm),
     Stream(S_none, S_none, S_m4a),
     Without(Audio, "ext")}

Transports ==
    {[protocol |-> PyStr(S_hls)], [protocol |-> PyStr(S_http)], [protocol |-> None],
     [url |-> PyStr(<<>>)], [url |-> None]}

Payloads ==
    {[format_id |-> PyStr(<<"b">>)], [format_id |-> None],
     [filesize |-> PyInt(7)], [filesize_approx |-> PyInt(8)]}

Descriptors ==
    {Merge(Video, l) : l \in Labels} \cup {Merge(Audio, l) : l \in Labels}
    \cup {Merge(c, Height9) : c \in Classes}
    \cup {Merge(Merge(s, l), t) : s \in {Video, Audio}, l \in {Height9}, t \in Transports \cup Payloads}
    \cup {Without(Merge(s, Height9), k) : s \in {Video, Audio}, k \in {"protocol", "url", "format_id"}}

\* the longest list of descriptors a call is checked on
MaxFormats == 2

FormatLists == UNION {[1..n -> Descriptors] : n \in 0..MaxFormats}

---------------------------------------------------------------------------
(* Calls of filter_formats *)

Idle == "idle"

InitFilter ==
    /\ pc = "filter_formats"
    /\ formats \in FormatLists
    /\ result = Idle /\ reapplied = Idle /\ resurvived = Idle
    /\ seconds = Idle /\ duration = Idle
    /\ extracted = Idle /\ response = Idle /\ extract_calls = 0

\* combined_formats, audio_only_formats = filter_formats(formats)
CallFilterFormats ==
    /\ pc = "filter_formats"
    /\ result' = filter_formats(formats)
    /\ pc' = "filtered"
    /\ UNCHANGED <<formats, reapplied, resurvived, seconds, duration,
                   extracted, response, extract_calls>>

\* the descriptors of formats the entries of the two returned lists were built from
Survivors(r) ==
    [j \in 1..Len(r.combined) |-> formats[r.combined_src[j]]]
    \o [j \in 1..Len(r.audio) |-> formats[r.audio_src[j]]]

\* filter_formats called again: on the entries it returned, and on the
\* descriptors those entries were built from
ReapplyFilterFormats ==
    /\ pc = "filtered"
    /\ result.status = "ok"
    /\ reapplied' = filter_formats(result.combined \o result.audio)
    /\ resurvived' = filter_formats(Survivors(result))
    /\ pc' = "refiltered"
    /\ UNCHANGED <<formats, result, seconds, duration,
                   extracted, response, extract_calls>>

NextFilter == CallFilterFormats \/ ReapplyFilterFormats

SpecFilter == InitFilter /\ [][NextFilter]_vars

---------------------------------------------------------------------------
(* format_duration and format_views *)

\* int(v) of lines 37 and 49: whether it returns, and what.  A str converts when
\* it is a string of digits (the strings of this model carry no sign or blank).
IntConvertible(v) == v.t = "int" \/ (v.t = "str" /\ IsDigit(v.s))
ToInt(v) == IF v.t = "int" THEN v.n ELSE ParseInt(v.s)

\* f"{k:02d}"
Pad2(k) == IF Len(IntToStr(k)) < 2 THEN <<"0">> \o IntToStr(k) ELSE IntToStr(k)

\* lines 38-43, on the int that line 37 produced
DurationText(n) ==
    LET hours == n \div 3600
        minutes == (n % 3600) \div 60
        secs == n % 60
    IN  IF hours > 0
        THEN Pad2(hours) \o <<":">> \o Pad2(minutes) \o <<":">> \o Pad2(secs)
        ELSE Pad2(minutes) \o <<":">> \o Pad2(secs)

\* format_duration(sec): status "ok" with the returned str, or "ValueError"
format_duration(sec) ==
    IF sec = None THEN [status |-> "ok", value |-> PyStr(S_NA)]
    ELSE IF ~IntConvertible(sec) THEN [status |-> "ValueError", value |-> None]
    ELSE [status |-> "ok", value |-> PyStr(DurationText(ToInt(sec)))]

\* f"{views / unit:.1f}": the quotient rounded to one decimal.  A quotient that
\* lies exactly between two tenths is rounded by Python on its binary float; the
\* view counts of this model avoid those.
OneDecimal(views, unit) ==
    LET q == (views * 10) \div unit
        r == (views * 10) % unit
        tenths == IF 2 * r > unit \/ (2 * r = unit /\ q % 2 = 1) THEN q + 1 ELSE q
    IN  IntToStr(tenths \div 10) \o <<".">> \o IntToStr(tenths % 10)

\* lines 50-56, on the int that line 49 produced
ViewsText(n) ==
    IF n >= 1000000000 THEN OneDecimal(n, 1000000000) \o <<"B">>
    ELSE IF n >= 1000000 THEN OneDecimal(n, 1000000) \o <<"M">>
    ELSE IF n >= 1000 THEN OneDecimal(n, 1000) \o <<"K">>
    ELSE IntToStr(n)

\* format_views(views): status "ok" with the returned str, or "ValueError"
format_views(views) ==
    IF views = None THEN [status |-> "ok", value |-> PyStr(S_NA)]
    ELSE IF ~IntConvertible(views) THEN [status |-> "ValueError", value |-> None]
    ELSE [status |-> "ok", value |-> PyStr(ViewsText(ToInt(views)))]

\* the largest number of seconds format_duration is checked on, besides a few
\* longer durations
MaxSeconds == 3700

DurationInputs ==
    {None} \cup {PyInt(n) : n \in 0..MaxSeconds} \cup {PyInt(36000), PyInt(360000)}
    \cup {PyStr(<<"6", "5">>), PyStr(<<"a", "b", "c">>), PyStr(<<>>)}

InitDuration ==
    /\ pc = "format_duration"
    /\ seconds \in DurationInputs
    /\ duration = Idle
    /\ formats = Idle /\ result = Idle /\ reapplied = Idle /\ resurvived = Idle
    /\ extracted = Idle /\ response = Idle /\ extract_calls = 0

\* duration = format_duration(seconds); an exception leaves the call
CallFormatDuration ==
    /\ pc = "format_duration"
    /\ duration' = format_duration(seconds)
    /\ pc' = IF format_duration(seconds).status = "ok" THEN "formatted" ELSE "raised"
    /\ UNCHANGED <<formats, result, reapplied, resurvived, seconds,
                   extracted, response, extract_calls>>

NextDuration == CallFormatDuration

SpecDuration == InitDuration /\ [][NextDuration]_vars

---------------------------------------------------------------------------
(* get_video_info *)

\* d.get(k, default)
GetOr(d, k, default) == IF k \in DOMAIN d THEN d[k] ELSE default

\* 'x' in s, and s.split('x')[0]
Contains(s, c) == \E i \in 1..Len(s) : s[i] = c
BeforeFirst(s, c) ==
    IF Contains(s, c)
    THEN SubSeq(s, 1, (CHOOSE i \in 1..Len(s) : s[i] = c /\ \A j \in 1..(i - 1) : s[j] # c) - 1)
    ELSE s

\* line 152: one processed thumbnail
ThumbnailEntry(t) ==
    [url |-> t["url"],
     resolution |-> PyStr(PyFormat(Get(t, "width")) \o <<"x">> \o PyFormat(Get(t, "height")))]

\* line 154: the sort key of a processed thumbnail; int() raises ValueError on
\* text that is no number
ThumbnailKeyRaises(x) ==
    Contains(x.resolution.s, "x") /\ ~IsDigit(BeforeFirst(x.resolution.s, "x"))
ThumbnailKey(x) ==
    IF Contains(x.resolution.s, "x") THEN ParseInt(BeforeFirst(x.resolution.s, "x")) ELSE 0

\* lines 151-154: status "ok" with the list sorted by descending width (equal
\* widths in their original order), or "ValueError"
processed_thumbnails(thumbnails) ==
    LET kept == SelectSeq(thumbnails, LAMBDA t : Truthy(Get(t, "url")))
        entries == [j \in 1..Len(kept) |-> ThumbnailEntry(kept[j])]
        order == SortedOrder([j \in 1..Len(entries) |-> 0 - ThumbnailKey(entries[j])],
                             Len(entries))
    IN  IF \E j \in 1..Len(entries) : ThumbnailKeyRaises(entries[j])
        THEN [status |-> "ValueError", value |-> <<>>]
        ELSE [status |-> "ok", value |-> Permute(entries, order)]

S_confirm == <<"c", "o", "n", "f", "i", "r", "m">>
S_ytdlp == <<"y", "t", "-", "d", "l", "p">>

\* line 135: the extracted record is a bot-check page or has no title
BotProtected(info_dict) ==
    \/ Get(info_dict, "webpage_url_basename") = PyStr(S_confirm)
    \/ Get(info_dict, "title") = None

\* The body of the try statement, lines 131-166, after ydl.extract_info returned
\* info_dict: the exception that leaves it (with the status of an HTTPException),
\* or none and the dict it returns.
TryBody(info_dict) ==
    IF info_dict = None
    THEN [exception |-> "AttributeError", status_code |-> 0, value |-> None]
    ELSE IF BotProtected(info_dict)
    THEN [exception |-> "HTTPException", status_code |-> 403, value |-> None]
    ELSE LET filtered == filter_formats(GetOr(info_dict, "formats", <<>>))
             thumbs == processed_thumbnails(GetOr(info_dict, "thumbnails", <<>>))
             dur == format_duration(Get(info_dict, "duration"))
             views == format_views(Get(info_dict, "view_count"))
         IN  IF filtered.status # "ok"
             THEN [exception |-> filtered.status, status_code |-> 0, value |-> None]
             ELSE IF thumbs.status # "ok"
             THEN [exception |-> thumbs.status, status_code |-> 0, value |-> None]
             ELSE IF dur.status # "ok"
             THEN [exception |-> dur.status, status_code |-> 0, value |-> None]
             ELSE IF views.status # "ok"
             THEN [exception |-> views.status, status_code |-> 0, value |-> None]
             ELSE [exception |-> "",
                   status_code |-> 200,
                   value |-> [title |-> Get(info_dict, "title"),
                              description |-> Get(info_dict, "description"),
                              duration |-> dur.value,
                              views |-> views.value,
                              thumbnails |-> thumbs.value,
                              video_formats |-> filtered.combined,
                              audio_formats |-> filtered.audio,
                              source |-> PyStr(S_ytdlp)]]

\* lines 168-180: except yt_dlp.utils.DownloadError; the message is the set of
\* the phrases the handler looks for that str(e) contains
OnDownloadError(message) ==
    IF "confirm you're not a bot" \in message \/ "Private video" \in message
    THEN [status_code |-> 403,
          detail |-> "YouTube blocked this video for automated access (or it's private). Try another video."]
    ELSE IF "Unsupported URL" \in message
    THEN [status_code |-> 400, detail |-> "Unsupported URL or video not found."]
    ELSE [status_code |-> 500, detail |-> "Internal Downloader Error"]

\* lines 182-184: except Exception.  HTTPException is an Exception, so the
\* clause also takes the HTTPException that line 136 raises inside the try.
OnException(raised) ==
    [status_code |-> 500, detail |-> "An unexpected error occurred."]

\* get_video_info(url), given what ydl.extract_info(url) did: the response
get_video_info(outcome) ==
    IF outcome.kind = "DownloadError" THEN OnDownloadError(outcome.message)
    ELSE IF outcome.kind = "Exception" THEN OnException([exception |-> "Exception"])
    ELSE IF TryBody(outcome.info_dict).exception # ""
    THEN OnException(TryBody(outcome.info_dict))
    ELSE [status_code |-> 200, body |-> TryBody(outcome.info_dict).value]

\* What ydl.extract_info may do: raise DownloadError, raise another exception,
\* or return a record (or None), any key of which may be absent.
EmptyDict == [k \in {} |-> None]

GoodThumbnail(w) == [url |-> PyStr(<<"t">>), width |-> PyInt(w), height |-> PyInt(9)]

InfoDicts ==
    {Merge(Merge(Merge(Merge(Merge(b, t), d), v), th), fs) :
        b \in {EmptyDict, [webpage_url_basename |-> PyStr(<<"w">>)],
               [webpage_url_basename |-> PyStr(S_confirm)]},
        t \in {EmptyDict, [title |-> None], [title |-> PyStr(<<"T">>)]},
        d \in {EmptyDict, [duration |-> PyInt(0)], [duration |-> PyInt(65)],
               [duration |-> PyStr(<<"a", "b", "c">>)]},
        v \in {EmptyDict, [view_count |-> PyInt(1500)]},
        th \in {EmptyDict,
                [thumbnails |-> <<GoodThumbnail(12), GoodThumbnail(48)>>],
                [thumbnails |-> <<Without(GoodThumbnail(12), "width")>>],
                [thumbnails |-> <<Without(GoodThumbnail(12), "url")>>]},
        fs \in {EmptyDict, [formats |-> <<>>],
                [formats |-> <<Merge(Video, Height9)>>],
                [formats |-> <<Merge(Video, Height9), Merge(Audio, Abr5)>>],
                [formats |-> <<Merge(Merge(Video, Height9), [protocol |-> PyStr(S_hls)])>>],
                [formats |-> <<Without(Merge(Video, Height9), "format_id")>>]}}

Outcomes ==
    {[kind |-> "DownloadError", message |-> m] :
        m \in SUBSET {"confirm you're not a bot", "Private video", "Unsupported URL"}}
    \cup {[kind |-> "Exception"]}
    \cup {[kind |-> "returned", info_dict |-> None]}
    \cup {[kind |-> "returned", info_dict |-> i] : i \in InfoDicts}

InitInfo ==
    /\ pc = "serving"
    /\ extracted = Idle /\ response = Idle /\ extract_calls = 0
    /\ formats = Idle /\ result = Idle /\ reapplied = Idle /\ resurvived = Idle
    /\ seconds = Idle /\ duration = Idle

\* One GET /yt/info request, from its arrival to its response.  The handler
\* calls ydl.extract_info once (line 132) and has no loop around it.
GetVideoInfo ==
    /\ pc \in {"serving", "responded"}
    /\ \E outcome \in Outcomes :
          /\ extracted' = outcome
          /\ response' = get_video_info(outcome)
    /\ extract_calls' = 1
    /\ pc' = "responded"
    /\ UNCHANGED <<formats, result, reapplied, resurvived, seconds, duration>>

NextInfo == GetVideoInfo

SpecInfo == InitInfo /\ [][NextInfo]_vars

---------------------------------------------------------------------------
(* Properties of filter_formats, checked under SpecFilter *)

Range(seq) == {seq[j] : j \in 1..Len(seq)}

Returned == pc \in {"filtered", "refiltered"} /\ result.status = "ok"

\* C1: every entry of the combined list comes from a descriptor with a video
\* codec other than 'none', an audio codec other than 'none' and ext 'mp4'; every
\* entry of the audio-only list comes from a descriptor whose video codec is 'none'.
C1_EntriesMatchTheirList ==
    Returned =>
        /\ \A j \in 1..Len(result.combined) :
              LET f == formats[result.combined_src[j]]
              IN  /\ result.combined[j].url = f["url"]
                  /\ result.combined[j].format_id = f["format_id"]
                  /\ Get(f, "vcodec") # PyStr(S_none)
                  /\ Get(f, "acodec") # PyStr(S_none)
                  /\ Get(f, "ext") = PyStr(S_mp4)
        /\ \A j \in 1..Len(result.audio) :
              LET f == formats[result.audio_src[j]]
              IN  /\ result.audio[j].url = f["url"]
                  /\ result.audio[j].format_id = f["format_id"]
                  /\ Get(f, "vcodec") = PyStr(S_none)

\* a call that returned an entry in each list
C1_Witness ==
    Returned /\ Len(result.combined) >= 1 /\ Len(result.audio) >= 1

\* C2: no two entries of the combined list have the same resolution, and no two
\* entries of the audio-only list have the same (ext, quality) pair.
C2_NoDuplicates ==
    Returned =>
        /\ \A j, k \in 1..Len(result.combined) :
              j # k => result.combined[j].resolution # result.combined[k].resolution
        /\ \A j, k \in 1..Len(result.audio) :
              j # k => <<result.audio[j].ext, result.audio[j].quality>>
                       # <<result.audio[k].ext, result.audio[k].quality>>

\* C3 as stated: filter_formats applied to the entries it returned gives the same
\* two lists again.
C3_IdempotentOnOutput ==
    pc = "refiltered" =>
        /\ reapplied.status = "ok"
        /\ reapplied.combined = result.combined
        /\ reapplied.audio = result.audio

\* C3 as amended: filter_formats applied to the descriptors its entries were built
\* from, in the order of the returned lists, gives the same two lists again.
C3_IdempotentOnSurvivors ==
    pc = "refiltered" =>
        /\ resurvived.status = "ok"
        /\ resurvived.combined = result.combined
        /\ resurvived.audio = result.audio

\* the second call ran on what is left of two descriptors of the same resolution
C3_Witness ==
    /\ pc = "refiltered"
    /\ Len(formats) = 2
    /\ Get(formats[1], "height") = Get(formats[2], "height")
    /\ Get(formats[1], "height") = PyInt(9)
    /\ result.combined_src = <<1>>
    /\ Len(resurvived.combined) = 1

\* C4: filter_formats never raises, whichever keys of a descriptor are missing
\* or None.
C4_NeverRaises == pc \in {"filtered", "refiltered"} => result.status = "ok"

\* the number a resolution label stands for: what is left of it without the
\* letter p when that is a number, else 0
NumericResolution(x) ==
    LET digits == SelectSeq(x.resolution.s, LAMBDA c : c # "p")
    IN  IF digits # <<>> /\ \A i \in 1..Len(digits) : digits[i] \in DigitSet
        THEN ParseInt(digits)
        ELSE 0

Unsupported(f) ==
    \/ Get(f, "protocol") \notin {None, PyStr(S_http), PyStr(S_https)}
    \/ Get(f, "url") \in {None, PyStr(<<>>)}

\* C10: a descriptor with an unsupported protocol or without a url contributes
\* no entry to either list.
C10_UnsupportedNeverContributes ==
    Returned =>
        \A i \in 1..Len(formats) :
            Unsupported(formats[i]) =>
                i \notin Range(result.combined_src) \cup Range(result.audio_src)

\* an hls descriptor was dropped in a call that kept the descriptor after it
C10_Witness ==
    /\ Returned
    /\ Len(formats) = 2
    /\ Get(formats[1], "protocol") = PyStr(S_hls)
    /\ Truthy(Get(formats[1], "url"))
    /\ Get(formats[1], "ext") = PyStr(S_mp4)
    /\ result.combined_src = <<2>>

---------------------------------------------------------------------------
(* Properties of format_duration, checked under SpecDuration *)

\* what C8 says format_duration returns
ClaimedDuration(sec) ==
    IF sec = None \/ ~IntConvertible(sec) \/ ToInt(sec) = 0 THEN PyStr(S_NA)
    ELSE LET n == ToInt(sec)
         IN  IF n < 3600
             THEN PyStr(IntToStr(n \div 60) \o <<":">> \o Pad2(n % 60))
             ELSE PyStr(IntToStr(n \div 3600) \o <<":">> \o Pad2((n % 3600) \div 60)
                        \o <<":">> \o Pad2(n % 60))

\* C8: format_duration maps None and 0 to "N/A", a positive number of seconds
\* below 3600 to "M:SS", 3600 or more to "H:MM:SS", and what cannot be converted
\* to an int to "N/A" without raising.
C8_DurationAsClaimed ==
    pc \in {"formatted", "raised"} =>
        /\ duration.status = "ok"
        /\ duration.value = ClaimedDuration(seconds)

---------------------------------------------------------------------------
(* Properties of get_video_info, checked under SpecInfo *)

Returned_info == pc = "responded" /\ extracted.kind = "returned" /\ extracted.info_dict # None

\* the source rejected the request: a bot-check page, a record without a title,
\* or a DownloadError that reports the bot check
Blocked ==
    /\ pc = "responded"
    /\ \/ /\ extracted.kind = "DownloadError"
          /\ "confirm you're not a bot" \in extracted.message
       \/ /\ extracted.kind = "returned"
          /\ extracted.info_dict # None
          /\ \/ Get(extracted.info_dict, "webpage_url_basename") = PyStr(S_confirm)
             \/ Get(extracted.info_dict, "title") = None

\* C5: a blocked request is not retried and is answered with 403 or 503.
C5_BlockedIsForbidden ==
    Blocked => extract_calls = 1 /\ response.status_code \in {403, 503}

\* the record's duration, view count and thumbnails are ones the formatters take
MetadataFormats(info_dict) ==
    /\ format_duration(Get(info_dict, "duration")).status = "ok"
    /\ format_views(Get(info_dict, "view_count")).status = "ok"
    /\ processed_thumbnails(GetOr(info_dict, "thumbnails", <<>>)).status = "ok"

\* the record is no bot-check page and has a title, and none of its formats is
\* eligible
NoEligibleFormats ==
    /\ Returned_info
    /\ Get(extracted.info_dict, "webpage_url_basename") # PyStr(S_confirm)
    /\ Get(extracted.info_dict, "title") # None
    /\ MetadataFormats(extracted.info_dict)
    /\ filter_formats(GetOr(extracted.info_dict, "formats", <<>>)).status = "ok"
    /\ filter_formats(GetOr(extracted.info_dict, "formats", <<>>)).combined = <<>>
    /\ filter_formats(GetOr(extracted.info_dict, "formats", <<>>)).audio = <<>>

\* C6: a request whose extraction succeeds with no eligible format ends with a
\* client error, not with a success and not with an internal fault.
C6_NoFormatsIsClientError ==
    NoEligibleFormats => response.status_code \in 400..499

S_Untitled == <<"U", "n", "t", "i", "t", "l", "e", "d", " ", "V", "i", "d", "e", "o">>

\* the record is no bot-check page and has no formats
EmptyFormats ==
    /\ Returned_info
    /\ Get(extracted.info_dict, "webpage_url_basename") # PyStr(S_confirm)
    /\ MetadataFormats(extracted.info_dict)
    /\ GetOr(extracted.info_dict, "formats", <<>>) = <<>>

\* C7: on an empty descriptor list filter_formats returns two empty lists and
\* get_video_info returns a well-formed record, whose title is "Untitled Video"
\* when the extracted record has none.
C7_EmptyFormatsStillWellFormed ==
    /\ filter_formats(<<>>).status = "ok"
    /\ filter_formats(<<>>).combined = <<>>
    /\ filter_formats(<<>>).audio = <<>>
    /\ EmptyFormats =>
          /\ response.status_code = 200
          /\ {"title", "duration", "thumbnails", "video_formats", "audio_formats", "source"}
                \subseteq DOMAIN response.body
          /\ response.body.video_formats = <<>>
          /\ response.body.audio_formats = <<>>
          /\ response.body.title =
                IF Get(extracted.info_dict, "title") = None
                THEN PyStr(S_Untitled)
                ELSE Get(extracted.info_dict, "title")

====
